---- MODULE Spec2Model ----
(***************************************************************************)
(* Store-Inventory (src/app.py): the startup CSV import, the duplicate     *)
(* reconciliation by date_updated and the interactive add, as a state      *)
(* machine over the Product table.                                         *)
(*                                                                         *)
(* Strings are sequences of one-character strings, so that the parsing the *)
(* code performs (strptime, strip, float, int, decimal_check) is computed  *)
(* on the characters.  The alphabet is digits, ".", "$", "-", "/", " " and *)
(* letters; exponents, "inf"/"nan", "+" and "_" are outside the alphabet.  *)
(***************************************************************************)
EXTENDS Integers, Sequences, FiniteSets, TLC

(* ------------------------------- bounds -------------------------------- *)
\* the dates are the first of the month, for MaxDates months from 11/2020 on
MaxDates == 3

\* the longest inventory.csv that is followed row by row
MaxRows == 3

\* sys.getrecursionlimit() of CPython, which the program never changes
RecursionLimit == 1000

(* ------------------------------- strings ------------------------------- *)
DigitChars == <<"0", "1", "2", "3", "4", "5", "6", "7", "8", "9">>

IsDigit(c) == \E i \in 1..10 : DigitChars[i] = c

DigitVal(c) == (CHOOSE i \in 1..10 : DigitChars[i] = c) - 1

AllDigits(s) == \A i \in 1..Len(s) : IsDigit(s[i])

RECURSIVE NatOf(_)
NatOf(s) == IF Len(s) = 0 THEN 0
            ELSE 10 * NatOf(SubSeq(s, 1, Len(s) - 1)) + DigitVal(s[Len(s)])

RECURSIVE Pow10(_)
Pow10(n) == IF n = 0 THEN 1 ELSE 10 * Pow10(n - 1)

\* str.index(c): the first position of c, 0 where Python raises ValueError
IndexOf(s, c) == IF \E i \in 1..Len(s) : s[i] = c
                 THEN CHOOSE i \in 1..Len(s) : s[i] = c /\ \A j \in 1..(i - 1) : s[j] # c
                 ELSE 0

\* str.strip(c): drops the leading and trailing run of c
RECURSIVE LStrip(_, _)
LStrip(s, c) == IF Len(s) > 0 /\ s[1] = c THEN LStrip(Tail(s), c) ELSE s

RECURSIVE RStrip(_, _)
RStrip(s, c) == IF Len(s) > 0 /\ s[Len(s)] = c
                THEN RStrip(SubSeq(s, 1, Len(s) - 1), c) ELSE s

Strip(s, c) == RStrip(LStrip(s, c), c)

\* str.lower() on the letters of the alphabet
LowerChar(c) == CASE c = "Y" -> "y"
                  [] c = "N" -> "n"
                  [] c = "A" -> "a"
                  [] c = "E" -> "e"
                  [] OTHER -> c

Lower(s) == [i \in 1..Len(s) |-> LowerChar(s[i])]

(* --------------------------- int() and float() ------------------------- *)
Unsigned(s) == IF Len(s) > 0 /\ s[1] = "-" THEN Tail(s) ELSE s

Sign(s) == IF Len(s) > 0 /\ s[1] = "-" THEN -1 ELSE 1

\* int(s) raises ValueError unless s is an optional sign and one or more digits
IntValueError(s) == Len(Unsigned(s)) = 0 \/ ~AllDigits(Unsigned(s))

IntOf(s) == Sign(s) * NatOf(Unsigned(s))

\* the digits of s before and after its first "."
IntPart(s) == IF IndexOf(s, ".") = 0 THEN s ELSE SubSeq(s, 1, IndexOf(s, ".") - 1)

FracPart(s) == IF IndexOf(s, ".") = 0 THEN <<>> ELSE SubSeq(s, IndexOf(s, ".") + 1, Len(s))

\* float(s) raises ValueError unless s is [-]digits[.digits] with a digit in it
FloatValueError(s) ==
    \/ ~AllDigits(IntPart(Unsigned(s)))
    \/ ~AllDigits(FracPart(Unsigned(s)))
    \/ Len(IntPart(Unsigned(s))) + Len(FracPart(Unsigned(s))) = 0

\* round(float(s) * 100): the cent values the expression can give.  With at
\* most two fraction digits the product is within an ulp of an integer and
\* round() gives that integer; beyond two digits it gives the nearest
\* integer, and on an exact half the binary representation of the float
\* decides between the two neighbours.
RoundTimes100(s) ==
    LET u == Unsigned(s)
        k == Len(FracPart(u))
        n == NatOf(IntPart(u) \o FracPart(u))
    IN  IF k <= 2
        THEN {Sign(s) * n * Pow10(2 - k)}
        ELSE LET d == Pow10(k - 2)
                 q == n \div d
                 r == n % d
             IN  IF 2 * r < d THEN {Sign(s) * q}
                 ELSE IF 2 * r > d THEN {Sign(s) * (q + 1)}
                 ELSE {Sign(s) * q, Sign(s) * (q + 1)}

(* ------------------------------ datetimes ------------------------------ *)
NoDate == [year |-> 0, month |-> 0, day |-> 0]

IsLeap(y) == (y % 4 = 0 /\ y % 100 # 0) \/ y % 400 = 0

DaysIn(m, y) == IF m = 2 THEN (IF IsLeap(y) THEN 29 ELSE 28)
                ELSE IF m \in {4, 6, 9, 11} THEN 30 ELSE 31

\* the three "/"-separated fields of a date string
Field1(s) == SubSeq(s, 1, IndexOf(s, "/") - 1)

Rest1(s) == SubSeq(s, IndexOf(s, "/") + 1, Len(s))

Field2(s) == SubSeq(Rest1(s), 1, IndexOf(Rest1(s), "/") - 1)

Field3(s) == SubSeq(Rest1(s), IndexOf(Rest1(s), "/") + 1, Len(Rest1(s)))

\* datetime.strptime(s, '%m/%d/%Y') raises ValueError unless s is
\* m/d/yyyy with one or two digits for month and day and four for the year
StrptimeValueError(s) ==
    \/ IndexOf(s, "/") = 0
    \/ IndexOf(Rest1(s), "/") = 0
    \/ ~AllDigits(Field1(s)) \/ ~(Len(Field1(s)) \in {1, 2})
    \/ ~AllDigits(Field2(s)) \/ ~(Len(Field2(s)) \in {1, 2})
    \/ ~AllDigits(Field3(s)) \/ Len(Field3(s)) # 4
    \/ ~(NatOf(Field1(s)) \in 1..12)
    \/ NatOf(Field3(s)) < 1
    \/ ~(NatOf(Field2(s)) \in 1..DaysIn(NatOf(Field1(s)), NatOf(Field3(s))))

Strptime(s) == [year |-> NatOf(Field3(s)), month |-> NatOf(Field1(s)), day |-> NatOf(Field2(s))]

\* datetime comparison a >= b (time of day is midnight on both sides)
DateGE(a, b) ==
    \/ a.year > b.year
    \/ a.year = b.year /\ a.month > b.month
    \/ a.year = b.year /\ a.month = b.month /\ a.day >= b.day

DateGT(a, b) == DateGE(a, b) /\ a # b

\* str(n) for a natural number
RECURSIVE StrOfNat(_)
StrOfNat(n) == IF n < 10 THEN <<DigitChars[n + 1]>>
               ELSE StrOfNat(n \div 10) \o <<DigitChars[(n % 10) + 1]>>

Pad2(n) == IF n < 10 THEN <<"0">> \o StrOfNat(n) ELSE StrOfNat(n)

\* date.strftime('%m/%d/%Y'): month and day zero-padded, the year as printed
\* by the C library (no padding)
Strftime(d) == Pad2(d.month) \o <<"/">> \o Pad2(d.day) \o <<"/">> \o StrOfNat(d.year)

(* ------------------------------- inputs -------------------------------- *)
Widget == <<"W", "i", "d", "g", "e", "t">>
Gadget == <<"G", "a", "d", "g", "e", "t">>

Names == {Widget, Gadget}

DateOf(k) == [year |-> 2020 + ((k + 9) \div 12), month |-> ((k + 9) % 12) + 1, day |-> 1]

Dates == {DateOf(k) : k \in 1..MaxDates}

QuantityStrings == {<<"1", "0">>, <<"-", "2">>}

PriceStrings ==
    { <<"$", "1", "2", ".", "3">>,
      <<"1", "2">>,
      <<"1", "2", ".", "3", "0", "4">>,
      <<"a", "b", "c">> }

DateStrings == {Strftime(d) : d \in Dates} \cup {<<"1", "3", "/", "0", "1", "/", "2", "0", "2", "0">>}

\* the rows csv.DictReader can yield
CsvRows == [product_name : Names, product_quantity : QuantityStrings,
            product_price : PriceStrings, date_updated : DateStrings]

\* the lines the user can type at a prompt
NameInputs == Names \cup {<<>>}

PriceInputs == PriceStrings \cup {<<"1", "2", ".", "0", "0">>, <<"-", "1", ".", "5">>}

QuantityInputs == QuantityStrings \cup {<<"x">>}

AnswerInputs == {<<"y">>, <<"N">>, <<"x">>}

MenuInputs == {<<"a">>, <<"E", " ">>, <<"x">>}

\* one product, one price and one quantity, every date
OneProductRows == [product_name : {Widget}, product_quantity : {<<"1", "0">>},
                   product_price : {<<"1", "2">>}, date_updated : DateStrings]

\* a date of the first millennium, which strptime reads with its four digits
OldDateString == <<"0", "1", "/", "0", "1", "/", "0", "9", "9", "9">>

\* the rows of the runs that view and back up the table: a product with a
\* price in dollars and dimes, one with a negative price and quantity
MenuRows ==
    [product_name : {Widget}, product_quantity : {<<"1", "0">>},
     product_price : {<<"$", "1", "2", ".", "3">>},
     date_updated : {Strftime(d) : d \in Dates} \cup {OldDateString}]
    \cup
    [product_name : {Gadget}, product_quantity : {<<"-", "2">>},
     product_price : {<<"-", "0", ".", "0", "5">>},
     date_updated : {Strftime(d) : d \in Dates}]

\* the well-formed rows of the files that are followed row by row: two
\* quantities of one product, so that two rows of a name and date differ
ImportRows ==
    [product_name : {Widget}, product_quantity : QuantityStrings,
     product_price : {<<"$", "1", "2", ".", "3">>},
     date_updated : {Strftime(d) : d \in Dates}]
    \cup
    [product_name : {Gadget}, product_quantity : {<<"1", "0">>},
     product_price : {<<"1", "2">>},
     date_updated : {Strftime(d) : d \in Dates}]

\* the files of at most MaxRows rows
ImportFiles == UNION {[1..n -> ImportRows] : n \in 0..MaxRows}

MenuKeys == {<<"v">>, <<"b">>, <<"E", " ">>, <<"x">>}

ViewInputs == {<<"1">>, <<"3">>, <<"x">>}

(* -------------------------------- state -------------------------------- *)
VARIABLES
    store,                \* the Product table: a set of rows
    pc,                   \* where the program is
    line,                 \* the CSV row as csv.DictReader yielded it
    row,                  \* add_csv's row dict, as the loop body has rewritten it
    input,                \* the last line read from the terminal
    new_product_details,  \* add_new_product's dict
    existing_product,     \* the row Product.get returned in the except branch
    outcome,              \* the branch the last reconciliation took
    today,                \* datetime.now() at midnight
    track,                \* whether the two histories below are kept
    skipped,              \* per name, the latest date_updated skipped as older
    declined,             \* per name, the latest date_updated the user declined
    printed,              \* the last message of view_product_details on the terminal
    frames,               \* the depth of the Python call stack, 0 when not followed
    backup_inventory,     \* backup_inventory.csv
    inventory_csv         \* inventory.csv and the runs of add_csv over it, when followed

vars == <<store, pc, line, row, input, new_product_details, existing_product,
          outcome, today, track, skipped, declined, printed, frames,
          backup_inventory, inventory_csv>>

\* the four that most steps leave alone
shell == <<printed, frames, backup_inventory, inventory_csv>>

NoFile == [written |-> FALSE, rows |-> <<>>]

\* inventory.csv when its content is left open: every step of add_csv reads
\* any row
NoCsv == [followed |-> FALSE, rows |-> <<>>, position |-> 0, runs |-> 1, first |-> {}]

NoLine == [product_name |-> <<>>, product_quantity |-> <<>>,
           product_price |-> <<>>, date_updated |-> <<>>]

NoProduct == [product_id |-> 0, product_name |-> <<>>, product_quantity |-> 0,
              product_price |-> 0, date_updated |-> NoDate]

NoDetails == [product_name |-> <<>>]

Later(a, b) == IF DateGE(a, b) THEN a ELSE b

\* the history h with the date of dictionary recorded under its name
Recorded(h, dictionary) ==
    IF track
    THEN [h EXCEPT ![dictionary.product_name] = Later(@, dictionary.date_updated)]
    ELSE h

(* ------------------------------ the table ------------------------------ *)
\* a table that hands out the id 1 to every new row
NextId_one(s) == 1

\* AutoField on SQLite: INTEGER PRIMARY KEY, the largest rowid plus one
NextId(s) == IF s = {} THEN 1
             ELSE (CHOOSE i \in {e.product_id : e \in s} :
                      \A e \in s : e.product_id <= i) + 1

\* the table without the unique constraint on product_name
IntegrityError_never(s, name) == FALSE

\* product_name = CharField(unique=True): Product.create raises IntegrityError
IntegrityError(s, name) == \E e \in s : e.product_name = name

\* add_entry, with product_quantity already passed through int()
add_entry(s, dictionary) ==
    s \cup {[product_id |-> NextId(s),
             product_name |-> dictionary.product_name,
             product_quantity |-> dictionary.product_quantity,
             product_price |-> dictionary.product_price,
             date_updated |-> dictionary.date_updated]}

\* Product.get(Product.product_name == name)
GetByName(s, name) == CHOOSE e \in s : e.product_name = name

\* update_duplicate without the assignment to product_price
update_duplicate_keeps_price(s, dictionary, existing) ==
    {e \in s : e.product_id # existing.product_id}
    \cup {[existing EXCEPT !.product_quantity = dictionary.product_quantity,
                           !.date_updated = dictionary.date_updated]}

\* update_duplicate as an UPDATE without its WHERE clause
update_duplicate_every_row(s, dictionary, existing) ==
    {[e EXCEPT !.product_quantity = dictionary.product_quantity,
               !.product_price = dictionary.product_price,
               !.date_updated = dictionary.date_updated] : e \in s}

\* update_duplicate as a DELETE of the row and an INSERT of the new values
update_duplicate_reinserts(s, dictionary, existing) ==
    {e \in s : e.product_id # existing.product_id}
    \cup {[existing EXCEPT !.product_quantity = dictionary.product_quantity,
                           !.product_price = dictionary.product_price,
                           !.date_updated = dictionary.date_updated,
                           !.product_id = NextId(s)]}

\* update_duplicate: three assignments and save(), an UPDATE of the row with
\* the instance's primary key
update_duplicate(s, dictionary, existing) ==
    {e \in s : e.product_id # existing.product_id}
    \cup {[existing EXCEPT !.product_quantity = dictionary.product_quantity,
                           !.product_price = dictionary.product_price,
                           !.date_updated = dictionary.date_updated]}

\* the comparison of add_csv written with > and written with <=
csv_not_older_strict(r, existing) == DateGT(r.date_updated, existing.date_updated)

csv_not_older_reversed(r, existing) == DateGE(existing.date_updated, r.date_updated)

\* add_csv without the comparison: every later row of a name overwrites
csv_not_older_always(r, existing) == TRUE

\* row['date_updated'] >= existing_product.date_updated
csv_not_older(r, existing) == DateGE(r.date_updated, existing.date_updated)

\* the comparison of add_new_product dropped
new_not_older_always(details, existing) == TRUE

\* the comparison of the entry with > in place of >=
new_not_older_strict(details, existing) ==
    DateGT(details.date_updated, existing.date_updated)

\* new_product_details['date_updated'] >= existing_product.date_updated
new_not_older(details, existing) == DateGE(details.date_updated, existing.date_updated)

\* decimal_check: ValueError when the string has no "."
decimal_check_ValueError(string) == IndexOf(string, ".") = 0

decimal_check(string) == ~(Len(SubSeq(string, IndexOf(string, "."), Len(string))) > 3)

(* ------------------------ add_csv over a whole file -------------------- *)
\* the try block of add_csv on a parsed row: insert, or on IntegrityError
\* overwrite the stored record unless the row is older
reconcile(s, dictionary) ==
    IF ~IntegrityError(s, dictionary.product_name)
    THEN add_entry(s, dictionary)
    ELSE IF csv_not_older(dictionary, GetByName(s, dictionary.product_name))
    THEN update_duplicate(s, dictionary, GetByName(s, dictionary.product_name))
    ELSE s

\* a row on which the loop body raises ValueError (strptime, float or int)
RowValueError(r) ==
    \/ StrptimeValueError(r.date_updated)
    \/ FloatValueError(Strip(r.product_price, "$"))
    \/ IntValueError(r.product_quantity)

\* the tables that the loop body can leave from the table s on a row r that
\* raises nothing: one table, two where the price is an exact half cent
add_csv_row(s, r) ==
    { reconcile(s, [product_name |-> r.product_name,
                    product_price |-> cents,
                    product_quantity |-> IntOf(r.product_quantity),
                    date_updated |-> Strptime(r.date_updated)])
      : cents \in RoundTimes100(Strip(r.product_price, "$")) }

\* the ends of add_csv on the rows of a file, from the table s: the table it
\* leaves and the exception that ended it
RECURSIVE add_csv(_, _)
add_csv(rows, s) ==
    IF rows = <<>> THEN {[store |-> s, raised |-> "None"]}
    ELSE IF RowValueError(Head(rows)) THEN {[store |-> s, raised |-> "ValueError"]}
    ELSE UNION {add_csv(Tail(rows), t) : t \in add_csv_row(s, Head(rows))}

(* ---------------------------- the table, read -------------------------- *)
\* Product.select().order_by(Product.product_id.desc()).get(); the caller
\* gets DoesNotExist on the empty table
last_product_id(s) == CHOOSE e \in s : \A o \in s : o.product_id <= e.product_id

\* a scan of the table from the highest product_id down
SelectAll_desc(s) ==
    LET n == Cardinality(s)
        Above(e) == Cardinality({o \in s : o.product_id > e.product_id})
    IN  [i \in 1..n |-> CHOOSE e \in s : Above(e) = i - 1]

\* Product.select(): no ORDER BY, so SQLite walks the table in rowid order,
\* and the rowid is product_id
SelectAll(s) ==
    LET n == Cardinality(s)
        Below(e) == Cardinality({o \in s : o.product_id < e.product_id})
    IN  [i \in 1..n |-> CHOOSE e \in s : Below(e) = i - 1]

\* str(n) for an integer
StrOfInt(n) == IF n < 0 THEN <<"-">> \o StrOfNat(-n) ELSE StrOfNat(n)

\* "$%.2f" % float(cents * .01), for a number of cents far below 2^53
FormatPrice(cents) ==
    LET a == IF cents < 0 THEN -cents ELSE cents
    IN  <<"$">> \o (IF cents < 0 THEN <<"-">> ELSE <<>>) \o StrOfNat(a \div 100)
              \o <<".">> \o Pad2(a % 100)

\* the row that inventory_writer.writerow writes for a product
BackupRow(product) ==
    [product_name |-> product.product_name,
     product_price |-> FormatPrice(product.product_price),
     product_quantity |-> StrOfInt(product.product_quantity),
     date_updated |-> Strftime(product.date_updated)]

\* the rows of backup_inventory.csv under its header
backup_database(s) == [i \in 1..Cardinality(s) |-> BackupRow(SelectAll(s)[i])]

(* ------------------------------- startup ------------------------------- *)
Start ==
    /\ store = {}
    /\ pc = "add_csv"
    /\ line = NoLine
    /\ row = NoLine
    /\ input = <<>>
    /\ new_product_details = NoDetails
    /\ existing_product = NoProduct
    /\ outcome = "None"
    /\ today \in Dates
    /\ skipped = [n \in Names |-> NoDate]
    /\ declined = [n \in Names |-> NoDate]
    /\ printed = ""
    /\ frames = 0
    /\ backup_inventory = NoFile
    /\ inventory_csv = NoCsv

Init == Start /\ track = FALSE

InitTracked == Start /\ track = TRUE

(* ------------------------------- add_csv ------------------------------- *)
\* one iteration of "for row in rows" on the row r; an exception other than
\* IntegrityError leaves add_csv and ends the process
AddCsvRow(r) ==
    /\ pc = "add_csv"
    /\ inventory_csv.followed =>
            /\ inventory_csv.position < Len(inventory_csv.rows)
            /\ r = inventory_csv.rows[inventory_csv.position + 1]
    /\ inventory_csv' = IF inventory_csv.followed
                        THEN [inventory_csv EXCEPT !.position = @ + 1]
                        ELSE inventory_csv
    /\ line' = r
    /\ UNCHANGED <<input, new_product_details, today, track, declined, printed, frames,
                   backup_inventory>>
    /\ IF StrptimeValueError(r.date_updated)
       THEN /\ row' = r
            /\ pc' = "crashed"
            /\ outcome' = "ValueError"
            /\ existing_product' = NoProduct
            /\ UNCHANGED <<store, skipped>>
       ELSE IF FloatValueError(Strip(r.product_price, "$"))
       THEN /\ row' = [r EXCEPT !.date_updated = Strptime(r.date_updated)]
            /\ pc' = "crashed"
            /\ outcome' = "ValueError"
            /\ existing_product' = NoProduct
            /\ UNCHANGED <<store, skipped>>
       ELSE \E cents \in RoundTimes100(Strip(r.product_price, "$")) :
            /\ row' = [r EXCEPT !.date_updated = Strptime(r.date_updated),
                                !.product_price = cents]
            /\ IF IntValueError(r.product_quantity)
               THEN /\ pc' = "crashed"
                    /\ outcome' = "ValueError"
                    /\ existing_product' = NoProduct
                    /\ UNCHANGED <<store, skipped>>
               ELSE LET dictionary == [row' EXCEPT !.product_quantity = IntOf(@)]
                    IN  /\ pc' = "next_row"
                        /\ IF ~IntegrityError(store, dictionary.product_name)
                           THEN /\ store' = add_entry(store, dictionary)
                                /\ outcome' = "Inserted"
                                /\ existing_product' = NoProduct
                                /\ UNCHANGED skipped
                           ELSE LET existing == GetByName(store, dictionary.product_name)
                                IN  /\ existing_product' = existing
                                    /\ IF csv_not_older(dictionary, existing)
                                       THEN /\ store' = update_duplicate(store, dictionary, existing)
                                            /\ outcome' = "Updated"
                                            /\ UNCHANGED skipped
                                       ELSE /\ outcome' = "SkippedOlder"
                                            /\ skipped' = Recorded(skipped, dictionary)
                                            /\ UNCHANGED store

\* the loop goes on to the next row; the names of the body are rebound there
NextRow ==
    /\ pc = "next_row"
    /\ pc' = "add_csv"
    /\ line' = NoLine
    /\ row' = NoLine
    /\ existing_product' = NoProduct
    /\ outcome' = "None"
    /\ UNCHANGED <<store, input, new_product_details, today, track, skipped, declined>>
    /\ UNCHANGED shell

\* the rows are exhausted: add_csv returns and __main__ calls menu_loop
AddCsvDone ==
    /\ pc = "add_csv"
    /\ inventory_csv.followed => inventory_csv.position = Len(inventory_csv.rows)
    /\ inventory_csv' = IF inventory_csv.followed /\ inventory_csv.runs = 1
                        THEN [inventory_csv EXCEPT !.first = store]
                        ELSE inventory_csv
    /\ pc' = "menu"
    /\ UNCHANGED <<store, line, row, input, new_product_details, existing_product,
                   outcome, today, track, skipped, declined>>
    /\ UNCHANGED <<printed, frames, backup_inventory>>

(* ------------------------------ menu_loop ------------------------------ *)
AddKey == <<"a">>
ViewKey == <<"v">>
BackupKey == <<"b">>
ExitKey == <<"e">>
Yes == <<"y">>
No == <<"n">>

\* the depth of the stack n calls below the depth f
Deeper(f, n) == IF f = 0 THEN 0 ELSE f + n

\* a call that would make the stack deeper than the limit raises RecursionError,
\* which nothing in the program catches
RecursionError(f) == f > RecursionLimit

\* a handler, one frame below the menu_loop that called it, calls menu_loop(),
\* which calls print_heading() before its first prompt; no handler returns
CallMenuLoop ==
    IF RecursionError(Deeper(frames, 2))
    THEN /\ pc' = "crashed"
         /\ frames' = frames
    ELSE /\ pc' = "menu"
         /\ frames' = Deeper(frames, 1)

MenuLoop(inp) ==
    /\ pc = "menu"
    /\ input' = inp
    /\ LET choice == Strip(Lower(inp), " ")
       IN  IF choice \notin {AddKey, ViewKey, BackupKey, ExitKey}
           THEN /\ pc' = "menu"
                /\ UNCHANGED <<new_product_details, printed, frames, backup_inventory>>
           ELSE IF choice = ExitKey
           THEN /\ pc' = "exit"
                /\ frames' = Deeper(frames, 1)
                /\ UNCHANGED <<new_product_details, printed, backup_inventory>>
           ELSE IF RecursionError(Deeper(frames, 2))
           THEN \* the handler is entered and its call of print_heading fails
                /\ pc' = "crashed"
                /\ UNCHANGED <<new_product_details, printed, frames, backup_inventory>>
           ELSE IF choice = AddKey
           THEN /\ pc' = "add_name"
                /\ new_product_details' = NoDetails
                /\ frames' = Deeper(frames, 1)
                /\ UNCHANGED <<printed, backup_inventory>>
           ELSE IF choice = ViewKey
           THEN /\ pc' = "view"
                /\ printed' = "View Product Details"
                /\ frames' = Deeper(frames, 1)
                /\ UNCHANGED <<new_product_details, backup_inventory>>
           ELSE \* backup_database writes the file and calls menu_loop()
                /\ backup_inventory' = [written |-> TRUE, rows |-> backup_database(store)]
                /\ IF RecursionError(Deeper(frames, 3))
                   THEN /\ pc' = "crashed"
                        /\ frames' = frames
                   ELSE /\ pc' = "menu"
                        /\ frames' = Deeper(frames, 2)
                /\ UNCHANGED <<new_product_details, printed>>
    /\ UNCHANGED <<store, line, row, existing_product, outcome, today, track,
                   skipped, declined, inventory_csv>>

(* ---------------------------- add_new_product -------------------------- *)
\* "Enter a product name: "
EnterName(inp) ==
    /\ pc = "add_name"
    /\ input' = inp
    /\ new_product_details' = [product_name |-> inp]
    /\ pc' = IF Len(inp) = 0 THEN "add_name" ELSE "add_price"
    /\ UNCHANGED <<store, line, row, existing_product, outcome, today, track,
                   skipped, declined>>
    /\ UNCHANGED shell

\* "Enter a product price ($#.##): "
EnterPrice(inp) ==
    /\ pc = "add_price"
    /\ input' = inp
    /\ IF \/ decimal_check_ValueError(inp)
          \/ ~decimal_check(inp)
          \/ FloatValueError(Strip(inp, "$"))
       THEN /\ new_product_details' = [product_name |-> new_product_details.product_name,
                                       product_price |-> inp]
            /\ pc' = "add_price"
       ELSE \E cents \in RoundTimes100(Strip(inp, "$")) :
            /\ new_product_details' = [product_name |-> new_product_details.product_name,
                                       product_price |-> cents]
            /\ pc' = "add_quantity"
    /\ UNCHANGED <<store, line, row, existing_product, outcome, today, track,
                   skipped, declined>>
    /\ UNCHANGED shell

\* "Enter a product quantity: ", then date_updated and the try block
EnterQuantity(inp) ==
    /\ pc = "add_quantity"
    /\ input' = inp
    /\ UNCHANGED <<line, row, today, track, declined>>
    /\ UNCHANGED shell
    /\ IF IntValueError(inp)
       THEN /\ pc' = "add_quantity"
            /\ UNCHANGED <<store, new_product_details, existing_product, outcome, skipped>>
       ELSE LET dictionary == [product_name |-> new_product_details.product_name,
                               product_price |-> new_product_details.product_price,
                               product_quantity |-> IntOf(inp),
                               date_updated |-> today]
            IN  /\ new_product_details' = dictionary
                /\ IF ~IntegrityError(store, dictionary.product_name)
                   THEN /\ store' = add_entry(store, dictionary)
                        /\ outcome' = "Inserted"
                        /\ existing_product' = NoProduct
                        /\ pc' = "add_again"
                        /\ UNCHANGED skipped
                   ELSE LET existing == GetByName(store, dictionary.product_name)
                        IN  /\ existing_product' = existing
                            /\ UNCHANGED store
                            /\ IF new_not_older(dictionary, existing)
                               THEN /\ outcome' = "Asked"
                                    /\ pc' = "add_update"
                                    /\ UNCHANGED skipped
                               ELSE /\ outcome' = "SkippedOlder"
                                    /\ pc' = "add_again"
                                    /\ skipped' = Recorded(skipped, dictionary)

\* "Do you want to update this product with the details you entered? (y/n): "
ConfirmUpdate(inp) ==
    /\ pc = "add_update"
    /\ input' = inp
    /\ UNCHANGED <<line, row, new_product_details, existing_product, today, track, skipped>>
    /\ UNCHANGED shell
    /\ LET update == Lower(inp)
       IN  IF update = Yes
           THEN /\ store' = update_duplicate(store, new_product_details, existing_product)
                /\ outcome' = "Updated"
                /\ pc' = "add_again"
                /\ UNCHANGED declined
           ELSE IF update = No
           THEN /\ outcome' = "Declined"
                /\ pc' = "add_again"
                /\ declined' = Recorded(declined, new_product_details)
                /\ UNCHANGED store
           ELSE /\ pc' = "add_update"
                /\ UNCHANGED <<store, outcome, declined>>

\* back_to_menu("Would you like to add another product (y/n): ")
AddAnother(inp) ==
    /\ pc = "add_again"
    /\ input' = inp
    /\ LET stay == Lower(inp)
       IN  IF stay = Yes
           THEN /\ pc' = "add_name"
                /\ new_product_details' = NoDetails
                /\ existing_product' = NoProduct
                /\ outcome' = "None"
                /\ UNCHANGED frames
           ELSE IF stay = No
           THEN /\ CallMenuLoop
                /\ new_product_details' = NoDetails
                /\ existing_product' = NoProduct
                /\ outcome' = "None"
           ELSE /\ pc' = "add_again"
                /\ UNCHANGED <<new_product_details, existing_product, outcome, frames>>
    /\ UNCHANGED <<store, line, row, today, track, skipped, declined, printed,
                   backup_inventory, inventory_csv>>

(* -------------------------- view_product_details ----------------------- *)
DoesNotExistMessage == "This Product ID does not exist. Please try again."

\* the prompt is formatted with last_product_id() before anything is read: on
\* the empty table that raises DoesNotExist inside the try, the handler prints
\* and the while loop comes back to the same line
ViewEmpty ==
    /\ pc = "view"
    /\ store = {}
    /\ printed' = DoesNotExistMessage
    /\ pc' = "view"
    /\ UNCHANGED <<store, line, row, input, new_product_details, existing_product,
                   outcome, today, track, skipped, declined, frames, backup_inventory,
                   inventory_csv>>

\* "Enter Product ID to view details (1 - n): ", then print_product_details
ViewProduct(inp) ==
    /\ pc = "view"
    /\ store # {}
    /\ input' = inp
    /\ IF IntValueError(inp)
       THEN /\ printed' = "Entry must be a numeric. Please try again."
            /\ pc' = "view"
       ELSE IF ~(\E e \in store : e.product_id = IntOf(inp))
       THEN /\ printed' = DoesNotExistMessage
            /\ pc' = "view"
       ELSE /\ printed' = "ID:"
            /\ pc' = "view_again"
    /\ UNCHANGED <<store, line, row, new_product_details, existing_product, outcome,
                   today, track, skipped, declined, frames, backup_inventory,
                   inventory_csv>>

\* back_to_menu("Would you like to view more products (y/n): ")
ViewAgain(inp) ==
    /\ pc = "view_again"
    /\ input' = inp
    /\ LET stay == Lower(inp)
       IN  IF stay = Yes
           THEN /\ pc' = "view"
                /\ UNCHANGED frames
           ELSE IF stay = No
           THEN CallMenuLoop
           ELSE /\ pc' = "view_again"
                /\ UNCHANGED frames
    /\ UNCHANGED <<store, line, row, new_product_details, existing_product, outcome,
                   today, track, skipped, declined, printed, backup_inventory,
                   inventory_csv>>

(* ----------------------------- exit_program ---------------------------- *)
\* "Are you sure you want to exit the program? (y/n): "
ExitProgram(inp) ==
    /\ pc = "exit"
    /\ input' = inp
    /\ LET done == Lower(inp)
       IN  IF done = Yes
           THEN /\ pc' = "exited"
                /\ UNCHANGED frames
           ELSE IF done = No
           THEN CallMenuLoop
           ELSE /\ pc' = "exit"
                /\ UNCHANGED frames
    /\ UNCHANGED <<store, line, row, new_product_details, existing_product, outcome,
                   today, track, skipped, declined, printed, backup_inventory,
                   inventory_csv>>

(* ----------------------------- environment ----------------------------- *)
\* the program is started again on the same inventory.db
Main ==
    /\ pc \in {"exited", "crashed"}
    /\ pc' = "add_csv"
    /\ line' = NoLine
    /\ row' = NoLine
    /\ input' = <<>>
    /\ new_product_details' = NoDetails
    /\ existing_product' = NoProduct
    /\ outcome' = "None"
    /\ printed' = ""
    /\ frames' = IF frames = 0 THEN 0 ELSE 2
    /\ inventory_csv' = IF inventory_csv.followed
                        THEN [inventory_csv EXCEPT !.position = 0, !.runs = 2]
                        ELSE inventory_csv
    /\ UNCHANGED <<store, today, track, skipped, declined, backup_inventory>>

\* midnight passes while the program waits at a prompt
Midnight(d) ==
    /\ pc \in {"menu", "add_name"}
    /\ DateGT(d, today)
    /\ today' = d
    /\ UNCHANGED <<store, pc, line, row, input, new_product_details, existing_product,
                   outcome, track, skipped, declined>>
    /\ UNCHANGED shell

Next ==
    \/ \E r \in CsvRows : AddCsvRow(r)
    \/ NextRow
    \/ AddCsvDone
    \/ \E inp \in MenuInputs : MenuLoop(inp)
    \/ \E inp \in NameInputs : EnterName(inp)
    \/ \E inp \in PriceInputs : EnterPrice(inp)
    \/ \E inp \in QuantityInputs : EnterQuantity(inp)
    \/ \E inp \in AnswerInputs : ConfirmUpdate(inp)
    \/ \E inp \in AnswerInputs : AddAnother(inp)
    \/ \E inp \in AnswerInputs : ExitProgram(inp)
    \/ Main
    \/ \E d \in Dates : Midnight(d)

Spec == Init /\ [][Next]_vars

\* one product with one price and one quantity, with the two histories kept
NextTracked ==
    \/ \E r \in OneProductRows : AddCsvRow(r)
    \/ NextRow
    \/ AddCsvDone
    \/ \E inp \in MenuInputs : MenuLoop(inp)
    \/ EnterName(Widget)
    \/ EnterPrice(<<"$", "1", "2", ".", "3">>)
    \/ EnterQuantity(<<"1", "0">>)
    \/ \E inp \in AnswerInputs : ConfirmUpdate(inp)
    \/ \E inp \in AnswerInputs : AddAnother(inp)
    \/ \E inp \in AnswerInputs : ExitProgram(inp)
    \/ Main
    \/ \E d \in Dates : Midnight(d)

SpecTracked == InitTracked /\ [][NextTracked]_vars

\* the runs that import, view, back up and exit
NextMenu ==
    \/ \E r \in MenuRows : AddCsvRow(r)
    \/ NextRow
    \/ AddCsvDone
    \/ \E inp \in MenuKeys : MenuLoop(inp)
    \/ ViewEmpty
    \/ \E inp \in ViewInputs : ViewProduct(inp)
    \/ \E inp \in AnswerInputs : ViewAgain(inp)
    \/ \E inp \in AnswerInputs : ExitProgram(inp)
    \/ Main

SpecMenu == Init /\ [][NextMenu]_vars

\* the runs that stay at the menu, with the call stack followed:
\* __main__ is the first frame and its menu_loop() the second
InitStack ==
    /\ store = {}
    /\ pc = "add_csv"
    /\ line = NoLine
    /\ row = NoLine
    /\ input = <<>>
    /\ new_product_details = NoDetails
    /\ existing_product = NoProduct
    /\ outcome = "None"
    /\ today = DateOf(1)
    /\ track = FALSE
    /\ skipped = [n \in Names |-> NoDate]
    /\ declined = [n \in Names |-> NoDate]
    /\ printed = ""
    /\ frames = 2
    /\ backup_inventory = NoFile
    /\ inventory_csv = NoCsv

NextStack ==
    \/ AddCsvDone
    \/ \E inp \in {ExitKey, BackupKey, <<"x">>} : MenuLoop(inp)
    \/ \E inp \in AnswerInputs : ExitProgram(inp)
    \/ Main

SpecStack == InitStack /\ [][NextStack]_vars

\* the runs of the program over one well-formed inventory.csv, started again
\* after each exit on the same inventory.db and the same file
InitImport ==
    /\ store = {}
    /\ pc = "add_csv"
    /\ line = NoLine
    /\ row = NoLine
    /\ input = <<>>
    /\ new_product_details = NoDetails
    /\ existing_product = NoProduct
    /\ outcome = "None"
    /\ today = DateOf(1)
    /\ track = FALSE
    /\ skipped = [n \in Names |-> NoDate]
    /\ declined = [n \in Names |-> NoDate]
    /\ printed = ""
    /\ frames = 0
    /\ backup_inventory = NoFile
    /\ \E rows \in ImportFiles :
          inventory_csv = [followed |-> TRUE, rows |-> rows, position |-> 0,
                           runs |-> 1, first |-> {}]

NextImport ==
    \/ \E r \in ImportRows : AddCsvRow(r)
    \/ NextRow
    \/ AddCsvDone
    \/ MenuLoop(ExitKey)
    \/ ExitProgram(Yes)
    \/ Main

SpecImport == InitImport /\ [][NextImport]_vars

\* the program takes its next step and the user answers every prompt
SpecMenuFair == SpecMenu /\ WF_vars(NextMenu)

TypeOK ==
    /\ pc \in {"add_csv", "next_row", "menu", "add_name", "add_price", "add_quantity",
               "add_update", "add_again", "view", "view_again", "exit", "exited",
               "crashed"}
    /\ today \in Dates
    /\ \A e \in store : e.product_name \in Names /\ e.date_updated # NoDate
    /\ frames \in 0..RecursionLimit
    /\ inventory_csv.position \in 0..Len(inventory_csv.rows)

(* ------------------------- the steps of interest ----------------------- *)
\* a step of add_csv that read a row
ReadsRow == pc = "add_csv" /\ line' # NoLine

\* a step of add_csv that took a row through the loop body without exception
ImportsRow == pc = "add_csv" /\ pc' = "next_row"

\* a step of add_new_product that accepted the quantity and ran the try block
TriesEntry == pc = "add_quantity" /\ pc' # "add_quantity"

\* a step of add_new_product that got y or n at the update prompt
AnswersUpdate == pc = "add_update" /\ pc' = "add_again"

\* the stored record e carries the quantity, price and date of dictionary
Reflects(e, dictionary, quantity) ==
    /\ e.product_quantity = quantity
    /\ e.product_price = dictionary.product_price
    /\ e.date_updated = dictionary.date_updated

(* --------------------------------- C1 ---------------------------------- *)
\* C1: in every reachable state the table holds at most one record per
\* product_name.
C1_OneRecordPerName ==
    \A e1 \in store : \A e2 \in store :
        e1.product_name = e2.product_name => e1 = e2

\* both products are stored and a record with a stored name has just come in
C1_Witness ==
    /\ Cardinality(store) = 2
    /\ outcome \in {"Updated", "SkippedOlder", "Declined"}

(* --------------------------------- C2 ---------------------------------- *)
\* C2: a bulk-import row with the name of an existing record and a strictly
\* later date_updated overwrites that record: afterwards the record of that
\* name has the row's quantity, price and date_updated.
C2_LaterRowOverwrites ==
    [][ (/\ ImportsRow
         /\ \E e \in store : /\ e.product_name = row'.product_name
                             /\ DateGT(row'.date_updated, e.date_updated))
        => \E e \in store' : /\ e.product_name = row'.product_name
                             /\ Reflects(e, row', IntOf(row'.product_quantity)) ]_vars

\* a row strictly later than the record of its name was imported, with another
\* quantity and another price
C2_Witness ==
    /\ pc = "next_row"
    /\ outcome = "Updated"
    /\ DateGT(row.date_updated, existing_product.date_updated)
    /\ row.product_price # existing_product.product_price
    /\ IntOf(row.product_quantity) # existing_product.product_quantity

(* --------------------------------- C3 ---------------------------------- *)
\* C3: an incoming record (bulk-import row or interactive entry) with the name
\* of an existing record and a strictly earlier date_updated leaves the whole
\* table unchanged; the interactive entry is then finished without a prompt
\* that could still write it.
C3_OlderLeavesStore ==
    [][ /\ (/\ ImportsRow
            /\ \E e \in store : /\ e.product_name = row'.product_name
                                /\ DateGT(e.date_updated, row'.date_updated))
           => store' = store
        /\ (/\ TriesEntry
            /\ \E e \in store :
                  /\ e.product_name = new_product_details'.product_name
                  /\ DateGT(e.date_updated, new_product_details'.date_updated))
           => (store' = store /\ pc' = "add_again") ]_vars

\* an interactive entry older than the stored record of its name, with another
\* price, has been skipped
C3_Witness ==
    /\ pc = "add_again"
    /\ outcome = "SkippedOlder"
    /\ DateGT(existing_product.date_updated, new_product_details.date_updated)
    /\ existing_product.product_price # new_product_details.product_price
    /\ existing_product \in store

(* --------------------------------- C4 ---------------------------------- *)
\* C4 as stated: an incoming record (bulk-import row or interactive entry)
\* with the name of an existing record and an equal date_updated overwrites
\* the record's quantity, price and date_updated.
C4_TieIncomingWins ==
    [][ /\ (/\ ImportsRow
            /\ \E e \in store : /\ e.product_name = row'.product_name
                                /\ e.date_updated = row'.date_updated)
           => \E e \in store' : /\ e.product_name = row'.product_name
                                /\ Reflects(e, row', IntOf(row'.product_quantity))
        /\ (/\ AnswersUpdate
            /\ existing_product.date_updated = new_product_details.date_updated)
           => \E e \in store' :
                 /\ e.product_name = new_product_details.product_name
                 /\ Reflects(e, new_product_details, new_product_details.product_quantity) ]_vars

\* C4 amended: a bulk-import row with the name of an existing record and an
\* equal date_updated overwrites the record's quantity, price and
\* date_updated; an interactive entry with an equal date_updated is put to
\* the user, overwrites the record when the answer is y and leaves the table
\* unchanged when the answer is n.
C4_TieRowWinsEntryAsks ==
    [][ /\ (/\ ImportsRow
            /\ \E e \in store : /\ e.product_name = row'.product_name
                                /\ e.date_updated = row'.date_updated)
           => \E e \in store' : /\ e.product_name = row'.product_name
                                /\ Reflects(e, row', IntOf(row'.product_quantity))
        /\ (/\ TriesEntry
            /\ \E e \in store :
                  /\ e.product_name = new_product_details'.product_name
                  /\ e.date_updated = new_product_details'.date_updated)
           => (store' = store /\ pc' = "add_update")
        /\ (/\ AnswersUpdate
            /\ existing_product.date_updated = new_product_details.date_updated
            /\ Lower(input') = Yes)
           => \E e \in store' :
                 /\ e.product_name = new_product_details.product_name
                 /\ Reflects(e, new_product_details, new_product_details.product_quantity)
        /\ (/\ AnswersUpdate
            /\ existing_product.date_updated = new_product_details.date_updated
            /\ Lower(input') = No)
           => store' = store ]_vars

\* a row with the date of the record of its name was imported, with another
\* quantity and another price
C4_Witness ==
    /\ pc = "next_row"
    /\ outcome = "Updated"
    /\ row.date_updated = existing_product.date_updated
    /\ row.product_price # existing_product.product_price
    /\ IntOf(row.product_quantity) # existing_product.product_quantity

(* --------------------------------- C5 ---------------------------------- *)
\* C5: a bulk import never aborts on a row whose price or date cannot be
\* parsed: the row is skipped, the table is left as it was and the import
\* goes on to the next row.
C5_MalformedRowSkipped ==
    [][ (/\ ReadsRow
         /\ \/ StrptimeValueError(line'.date_updated)
            \/ FloatValueError(Strip(line'.product_price, "$")))
        => (pc' = "next_row" /\ store' = store) ]_vars

(* --------------------------------- C6 ---------------------------------- *)
\* more than two digits after the decimal separator
MoreThanTwoDecimals(string) ==
    /\ IndexOf(string, ".") # 0
    /\ Len(string) - IndexOf(string, ".") > 2

\* C6: a price string with more than two digits after the decimal separator
\* is rejected on both ingestion paths: a bulk-import row with such a price
\* leaves the table unchanged, and the interactive add asks for the price
\* again.
C6_ExtraDecimalsRejected ==
    [][ /\ (ReadsRow /\ MoreThanTwoDecimals(line'.product_price))
           => store' = store
        /\ (pc = "add_price" /\ MoreThanTwoDecimals(input'))
           => (pc' = "add_price" /\ store' = store) ]_vars

(* --------------------------------- C7 ---------------------------------- *)
\* a numeric price string: an optional leading "$", one or more digits, and
\* optionally "." with zero, one or two digits
NumericPrice(string) ==
    LET u == IF Len(string) > 0 /\ string[1] = "$" THEN Tail(string) ELSE string
    IN  /\ Len(IntPart(u)) > 0
        /\ AllDigits(IntPart(u))
        /\ AllDigits(FracPart(u))
        /\ Len(FracPart(u)) <= 2

\* the number of cents of a numeric price string
ExactCents(string) ==
    LET u == IF Len(string) > 0 /\ string[1] = "$" THEN Tail(string) ELSE string
    IN  100 * NatOf(IntPart(u))
        + (IF Len(FracPart(u)) = 1 THEN 10 * NatOf(FracPart(u)) ELSE NatOf(FracPart(u)))

\* C7: a record with a name not in the table, a quantity >= 0, a valid date
\* and a numeric price string is inserted on both paths with the exact number
\* of cents as its price: the bulk import inserts it, and the interactive add
\* accepts the price string as those cents and then inserts the record.
C7_InsertedWithExactCents ==
    [][ /\ (/\ ReadsRow
            /\ ~\E e \in store : e.product_name = line'.product_name
            /\ ~IntValueError(line'.product_quantity)
            /\ IntOf(line'.product_quantity) >= 0
            /\ ~StrptimeValueError(line'.date_updated)
            /\ NumericPrice(line'.product_price))
           => \E e \in store' \ store :
                 /\ e.product_name = line'.product_name
                 /\ e.product_quantity = IntOf(line'.product_quantity)
                 /\ e.product_price = ExactCents(line'.product_price)
                 /\ e.date_updated = Strptime(line'.date_updated)
        /\ (/\ pc = "add_price"
            /\ ~\E e \in store : e.product_name = new_product_details.product_name
            /\ NumericPrice(input'))
           => (/\ pc' = "add_quantity"
               /\ new_product_details'.product_price = ExactCents(input'))
        /\ (/\ pc = "add_quantity"
            /\ ~\E e \in store : e.product_name = new_product_details.product_name
            /\ ~IntValueError(input')
            /\ IntOf(input') >= 0)
           => \E e \in store' \ store :
                 /\ e.product_name = new_product_details.product_name
                 /\ e.product_quantity = IntOf(input')
                 /\ e.product_price = new_product_details.product_price
                 /\ e.date_updated = today ]_vars

(* --------------------------------- C8 ---------------------------------- *)
\* C8: in every reachable state every stored record has a non-negative
\* product_quantity and a non-negative product_price.
C8_NonNegative ==
    \A e \in store : e.product_quantity >= 0 /\ e.product_price >= 0

(* --------------------------------- C9 ---------------------------------- *)
\* C9 as stated: the date_updated of each stored record is greater than or
\* equal to the date_updated of every incoming record of its name that was
\* compared against it and not written, an entry the user declined included.
C9_NotWrittenNotLater ==
    \A e \in store : /\ DateGE(e.date_updated, skipped[e.product_name])
                     /\ DateGE(e.date_updated, declined[e.product_name])

\* C9 amended: the date_updated of each stored record is greater than or
\* equal to the date_updated of every incoming record of its name that the
\* date comparison rejected as older; an interactive entry the user declined
\* to apply can be later than the stored record.
C9_SkippedNotLater ==
    \A e \in store : DateGE(e.date_updated, skipped[e.product_name])

\* a row and an entry of the stored product were skipped as older, and the
\* record has been overwritten since
C9_Witness ==
    /\ skipped[Widget] # NoDate
    /\ \E e \in store : e.product_name = Widget /\ DateGT(e.date_updated, skipped[Widget])
    /\ outcome = "Updated"

(* --------------------------------- C10 --------------------------------- *)
\* C10: a step that overwrites a record (update_duplicate, from the bulk
\* import or the interactive add) keeps that record's product_id and
\* product_name and leaves every other record, and the number of records,
\* unchanged.
C10_OverwriteFrame ==
    [][ (/\ pc \in {"add_csv", "add_update"}
         /\ outcome' = "Updated")
        => /\ \A e \in store :
                 IF e.product_id = existing_product'.product_id
                 THEN \E f \in store' : /\ f.product_id = e.product_id
                                        /\ f.product_name = e.product_name
                 ELSE e \in store'
           /\ Cardinality(store') = Cardinality(store) ]_vars

\* the interactive add has overwritten one of two stored records with another
\* quantity, price and date
C10_Witness ==
    /\ pc = "add_again"
    /\ outcome = "Updated"
    /\ Cardinality(store) = 2
    /\ existing_product.product_price # new_product_details.product_price
    /\ existing_product.product_quantity # new_product_details.product_quantity
    /\ existing_product.date_updated # new_product_details.date_updated

(* --------------------------------- C11 --------------------------------- *)
\* C11: product ids are assigned in strictly increasing order of creation and
\* are never reused or changed: every step keeps the id of every stored name,
\* a record of a new name gets an id above every id in the table, a creation
\* that failed on a duplicate name adds no id, and after a successful
\* interactive add the record with the highest id (last_product_id) is the
\* record just created.
C11_IdsIncreaseNeverReused ==
    [][ /\ \A e \in store : \E f \in store' : /\ f.product_id = e.product_id
                                               /\ f.product_name = e.product_name
        /\ \A f \in store' :
              (~\E e \in store : e.product_name = f.product_name)
              => \A e \in store : f.product_id > e.product_id
        /\ existing_product' # NoProduct
              => {f.product_id : f \in store'} = {e.product_id : e \in store}
        /\ (TriesEntry /\ outcome' = "Inserted")
              => /\ last_product_id(store') \notin store
                 /\ last_product_id(store').product_name
                        = new_product_details'.product_name
                 /\ Reflects(last_product_id(store'), new_product_details',
                             new_product_details'.product_quantity) ]_vars

\* the interactive add has created the second record of the table
C11_Witness ==
    /\ pc = "add_again"
    /\ outcome = "Inserted"
    /\ Cardinality(store) = 2
    /\ last_product_id(store).product_id = 2
    /\ last_product_id(store).product_name = new_product_details.product_name

(* --------------------------------- C12 --------------------------------- *)
\* C12: when the store holds no products and the user has selected the view
\* action, the program eventually returns to the menu.
C12_EmptyViewReturns == (pc = "view" /\ store = {}) ~> (pc = "menu")

\* C12, the part a finite run decides: in the view loop on the empty store
\* the program is never stuck, some step of it still changes something (an
\* answer is read, the loop is left).
C12_EmptyViewNotStuck == (pc = "view" /\ store = {}) => ENABLED <<NextMenu>>_vars

(* --------------------------------- C13 --------------------------------- *)
\* the program is past the import: at the menu or inside one of its handlers
MenuRunning == pc \notin {"add_csv", "next_row", "exited", "crashed"}

\* C13: once the menu loop is running, the process terminates only by the
\* answer y to the confirmation of the exit action; the answer n returns to
\* the menu and any other answer asks again.
C13_TerminatesOnlyOnConfirmedExit ==
    [][ /\ (MenuRunning /\ pc' \in {"exited", "crashed"})
            => (pc = "exit" /\ Lower(input') = Yes /\ pc' = "exited")
        /\ (pc = "exit" /\ Lower(input') = No) => pc' = "menu"
        /\ (pc = "exit" /\ Lower(input') \notin {Yes, No}) => pc' = "exit" ]_vars

(* --------------------------------- C14 --------------------------------- *)
\* the (name, quantity, price, date) tuples of a table
Tuples(s) == {[product_name |-> e.product_name, product_quantity |-> e.product_quantity,
               product_price |-> e.product_price, date_updated |-> e.date_updated]
              : e \in s}

\* the menu action b has just written backup_inventory.csv from the store
BackedUp ==
    /\ pc = "menu"
    /\ Strip(Lower(input), " ") = BackupKey
    /\ backup_inventory.written

\* add_csv on the rows of a file, from the table s, ends without exception
\* and leaves the tuples of the store
RoundTrip(rows, s) ==
    \A end \in add_csv(rows, s) : /\ end.raised = "None"
                                  /\ Tuples(end.store) = Tuples(store)

\* the step of add_csv in the program is the loop body of add_csv above
AddCsvRowAgrees ==
    [][ /\ ImportsRow => (~RowValueError(line') /\ store' \in add_csv_row(store, line'))
        /\ (ReadsRow /\ pc' = "crashed")
              => ({end.raised : end \in add_csv(<<line'>>, store)} = {"ValueError"}) ]_vars

\* C14: for every reachable store, the rows that backup_database has written,
\* fed through add_csv into an empty store or into the same store, give a
\* store with exactly the same (name, quantity, price, date) tuples.
C14_BackupRoundTrip ==
    BackedUp => /\ RoundTrip(backup_inventory.rows, {})
                /\ RoundTrip(backup_inventory.rows, store)

\* C14 for the stores whose dates all have a year of four digits
C14_RoundTripFourDigitYears ==
    (BackedUp /\ \A e \in store : e.date_updated.year >= 1000)
    => /\ RoundTrip(backup_inventory.rows, {})
       /\ RoundTrip(backup_inventory.rows, store)

(* --------------------------------- C15 --------------------------------- *)
\* a step of the menu action b
BacksUp == pc = "menu" /\ Strip(Lower(input'), " ") = BackupKey

\* C15: the backup action writes exactly one row for each stored product and
\* no other row, in ascending order of product_id, and leaves the store
\* unchanged.
C15_BackupRowsInIdOrder ==
    [][ BacksUp =>
        LET rows == backup_inventory'.rows
        IN  /\ backup_inventory'.written
            /\ store' = store
            /\ Len(rows) = Cardinality(store)
            /\ \A e \in store :
                  Cardinality({i \in 1..Len(rows) :
                                  rows[i].product_name = e.product_name}) = 1
            /\ \A i \in 1..Len(rows) :
                  \E e \in store : /\ rows[i].product_name = e.product_name
                                   /\ IntOf(rows[i].product_quantity) = e.product_quantity
                                   /\ rows[i].product_price = FormatPrice(e.product_price)
                                   /\ rows[i].date_updated = Strftime(e.date_updated)
            /\ \A i, j \in 1..Len(rows) :
                  i < j => GetByName(store, rows[i].product_name).product_id
                             < GetByName(store, rows[j].product_name).product_id ]_vars

\* a backup of two products is there, the one created first in its first row
C15_Witness ==
    /\ BackedUp
    /\ Len(backup_inventory.rows) = 2
    /\ backup_inventory.rows[1].product_name = Gadget
    /\ GetByName(store, Gadget).product_id = 1
    /\ GetByName(store, Widget).product_id = 2

(* --------------------------------- C16 --------------------------------- *)
\* a step that ends an entry of add_new_product: the try block has inserted or
\* found the entry older, or the user has answered the update prompt
EntryEnds == (TriesEntry /\ pc' = "add_again") \/ AnswersUpdate

\* C16: for the same store and the same incoming record, add_new_product
\* leaves the store as add_csv leaves it, whatever the user answers.
C16_EntrySameAsImport ==
    [][ EntryEnds => store' = reconcile(store, new_product_details') ]_vars

\* C16, amended: add_new_product leaves the store as add_csv leaves it when the
\* name is new or the stored record is newer; where add_csv overwrites, it
\* asks first, and the store ends as add_csv leaves it on the answer y and
\* unchanged on the answer n; any other answer asks again.
C16_EntrySameAsImportOnYes ==
    [][ /\ (TriesEntry /\ pc' = "add_again")
              => store' = reconcile(store, new_product_details')
        /\ (TriesEntry /\ pc' = "add_update")
              => /\ store' = store
                 /\ IntegrityError(store, new_product_details'.product_name)
                 /\ reconcile(store, new_product_details')
                      = update_duplicate(store, new_product_details', existing_product')
                 /\ csv_not_older(new_product_details', existing_product')
        /\ (AnswersUpdate /\ Lower(input') = Yes)
              => store' = reconcile(store, new_product_details')
        /\ (AnswersUpdate /\ Lower(input') = No) => store' = store
        /\ (pc = "add_update" /\ pc' = "add_update") => store' = store ]_vars

\* the user has answered y and the entry has overwritten a record that
\* differed from it in quantity, price and date
C16_Witness ==
    /\ pc = "add_again"
    /\ outcome = "Updated"
    /\ Lower(input) = Yes
    /\ \E e \in store : /\ e.product_id = existing_product.product_id
                         /\ Reflects(e, new_product_details,
                                     new_product_details.product_quantity)
    /\ existing_product.product_price # new_product_details.product_price
    /\ existing_product.product_quantity # new_product_details.product_quantity
    /\ DateGT(new_product_details.date_updated, existing_product.date_updated)

(* --------------------------------- C17 --------------------------------- *)
\* the rows of inventory.csv that the running add_csv has been through
Imported == SubSeq(inventory_csv.rows, 1, inventory_csv.position)

\* the row of the name n that wins among rows: no row of n has a later date,
\* and no later row of n has the same date
Winner(rows, n) ==
    CHOOSE i \in 1..Len(rows) :
        /\ rows[i].product_name = n
        /\ \A j \in 1..Len(rows) :
              rows[j].product_name = n
              => \/ DateGT(Strptime(rows[i].date_updated), Strptime(rows[j].date_updated))
                 \/ /\ rows[i].date_updated = rows[j].date_updated
                    /\ j <= i

\* C17: after the bulk import of a sequence of well-formed rows into an empty
\* store, the record stored for each name is the row of that name with the
\* greatest date_updated, the latest-arriving one when several share that
\* date, wherever the older rows stand in the sequence.
C17_LatestDateWins ==
    (inventory_csv.followed /\ inventory_csv.runs = 1)
    => \A n \in Names :
          IF \A i \in 1..Len(Imported) : Imported[i].product_name # n
          THEN \A e \in store : e.product_name # n
          ELSE LET w == Imported[Winner(Imported, n)]
               IN  \E e \in store :
                      /\ e.product_name = n
                      /\ e.product_quantity = IntOf(w.product_quantity)
                      /\ RoundTimes100(Strip(w.product_price, "$")) = {e.product_price}
                      /\ e.date_updated = Strptime(w.date_updated)

\* three rows of one name are imported: the first and the third share the
\* greatest date and differ in quantity, the second is older
C17_Witness ==
    /\ inventory_csv.followed /\ inventory_csv.runs = 1
    /\ pc = "menu"
    /\ Len(Imported) = 3
    /\ \A i \in 1..3 : Imported[i].product_name = Widget
    /\ Imported[1].date_updated = Imported[3].date_updated
    /\ Imported[1].product_quantity # Imported[3].product_quantity
    /\ DateGT(Strptime(Imported[1].date_updated), Strptime(Imported[2].date_updated))
    /\ \E e \in store : e.product_quantity = IntOf(Imported[3].product_quantity)

(* --------------------------------- C18 --------------------------------- *)
\* C18: a second run of add_csv over the same well-formed CSV, on the store
\* the first run has left, leaves the store exactly as it was after the first
\* run: the same ids, names, quantities, prices and dates, no new record.
C18_SecondRunIdempotent ==
    (inventory_csv.followed /\ inventory_csv.runs = 2 /\ pc = "menu")
    => store = inventory_csv.first

\* the second run has been through a file in which two rows of one name share
\* the greatest date and differ in quantity, and a second name
C18_Witness ==
    /\ inventory_csv.followed /\ inventory_csv.runs = 2
    /\ pc = "menu"
    /\ Len(inventory_csv.rows) = 3
    /\ Cardinality(store) = 2
    /\ \E i, j \in 1..3 :
          /\ i < j
          /\ inventory_csv.rows[i].product_name = inventory_csv.rows[j].product_name
          /\ inventory_csv.rows[i].date_updated = inventory_csv.rows[j].date_updated
          /\ inventory_csv.rows[i].product_quantity # inventory_csv.rows[j].product_quantity
    /\ store = inventory_csv.first

====
